---------------------------- MODULE Spec2Model ----------------------------
(***************************************************************************)
(* Model of the Android ("droidplug") peripheral session of btleplug:      *)
(*   src/src/droidplug/peripheral.rs   the session, the bridge, discovery  *)
(*   src/src/droidplug/jni/objects.rs  the scan-result (AD) decoder        *)
(*                                                                         *)
(* The specifications share the module and its variables:                 *)
(*   SpecDecode    one run of the AD decoding loop over a byte buffer      *)
(*   SpecBridge    with_obj, result retrieval, fault classification        *)
(*   SpecDiscover  discovery alone, over every small host table            *)
(*   SpecScan      scan reports over a wide range of tx-power values       *)
(*   SpecMtu       mtu() over a wide range of host answers                 *)
(*   SpecStream    notifications() and the stream it returns               *)
(*   SpecCancel    discovery with callers that drop the future             *)
(*   Spec          the session: operations, gate, discovery, reports       *)
(***************************************************************************)
EXTENDS Integers, Sequences, FiniteSets, TLC

VARIABLES
    raw_bytes,          \* decoder: the scan record's bytes (objects.rs:686)
    index,              \* decoder: read index, 0-based (objects.rs:691)
    manufacturer_data,  \* decoder: HashMap<u16, Vec<u8>> (objects.rs:692)
    dpc,                \* decoder: "idle" | "loop" | "done" | "panic"
    bpc,                \* bridge: where one bridged call stands
    env_exception,      \* bridge: the host runtime's pending exception, <<>> or <<ex>>
    bout,               \* bridge: what the call returned, and the fault it met
    bcalls,             \* bridge: host calls the current invocation has issued
    adapter,            \* session: the owning AdapterManager, seen through the Weak
    gatt,               \* session: the services the host's discovery future yields
    shared,             \* session: PeripheralShared (peripheral.rs:202-206)
    inflight,           \* session: invocations suspended at their bridged await
    last,               \* session: the most recent event (a call, a return, a report)
    orphans,            \* session: host operations running whose caller dropped the future
    stream,             \* session: one notification stream, host side and consumer side
    lock,               \* lock: who holds the Mutex of PeripheralShared
    task                \* lock: where each discover_services task stands

dvars == <<raw_bytes, index, manufacturer_data, dpc>>
bvars == <<bpc, env_exception, bout, bcalls>>
lvars == <<lock, task>>
svars == <<adapter, gatt, shared, inflight, last, orphans, stream>>
vars == <<raw_bytes, index, manufacturer_data, dpc,
          bpc, env_exception, bout, bcalls,
          adapter, gatt, shared, inflight, last, orphans, stream,
          lock, task>>

(***************************************************************************)
(* Bounds.                                                                 *)
(***************************************************************************)
MaxChunks == 3
MaxAttrs == 3
MaxInFlight == 2
MaxEvents == 3

(***************************************************************************)
(* The AD decoder, objects.rs:691-723.                                     *)
(***************************************************************************)
\* raw_bytes[i] of the source: the source indexes from 0.
At(raw, i) == raw[i + 1]

\* raw_bytes[a..b].to_vec() for a <= b <= len.
Slice(raw, a, b) == [k \in 1..(b - a) |-> raw[a + k]]

EmptyMap == [k \in {} |-> <<>>]

\* A variant of EntryExtend that overwrites a company's earlier payload.
EntryInsert(md, company_id, data) ==
    [k \in DOMAIN md \cup {company_id} |->
         IF k = company_id THEN data ELSE md[k]]

\* manufacturer_data.entry(company_id).and_modify(|v| v.extend_from_slice(&data)).or_insert(data)
EntryExtend(md, company_id, data) ==
    IF company_id \in DOMAIN md
    THEN [md EXCEPT ![company_id] = @ \o data]
    ELSE [k \in DOMAIN md \cup {company_id} |->
              IF k = company_id THEN data ELSE md[k]]

\* A variant of CompanyId that reads the two bytes in big-endian order.
CompanyIdBigEndian(raw, i) == ((At(raw, i + 2) * 256) % 65536) + At(raw, i + 3)

\* (raw_bytes[index + 3] as u16) << 8 | (raw_bytes[index + 2] as u16)
\* (the shifted high byte has its low 8 bits clear, so | adds)
CompanyId(raw, i) == ((At(raw, i + 3) * 256) % 65536) + At(raw, i + 2)

\* A variant of Advance that leaves the read index where it was.
Advance_stuck(i, length) == i

\* index += length + 1
Advance(i, length) == i + length + 1

\* One evaluation of the loop condition and body. The result is the state
\* after it: pc "loop" (go round again), "done" (the loop was left) or
\* "panic" (an index or a slice out of range aborts the decode).
AdStep(raw, i, md) ==
    LET len == Len(raw) IN
    IF ~(i < len) THEN [index |-> i, md |-> md, pc |-> "done"]
    ELSE LET length == At(raw, i) IN
    IF length = 0 THEN [index |-> i, md |-> md, pc |-> "done"]
    ELSE IF i + length >= len THEN [index |-> i, md |-> md, pc |-> "done"]
    ELSE IF At(raw, i + 1) = 255
    THEN LET data_start == i + 4
             data_end == i + 1 + length
         IN  IF i + 3 >= len
             THEN [index |-> i, md |-> md, pc |-> "panic"]
             ELSE IF data_end <= len
             THEN IF data_start > data_end
                  THEN [index |-> i, md |-> md, pc |-> "panic"]
                  ELSE [index |-> Advance(i, length),
                        md |-> EntryExtend(md, CompanyId(raw, i),
                                           Slice(raw, data_start, data_end)),
                        pc |-> "loop"]
             ELSE [index |-> Advance(i, length), md |-> md, pc |-> "loop"]
    ELSE [index |-> Advance(i, length), md |-> md, pc |-> "loop"]

\* The loop of one decode, one iteration per step.
AdIterate ==
    /\ dpc = "loop"
    /\ LET s == AdStep(raw_bytes, index, manufacturer_data) IN
          /\ index' = s.index
          /\ manufacturer_data' = s.md
          /\ dpc' = s.pc
    /\ UNCHANGED raw_bytes
    /\ UNCHANGED <<bvars, svars, lvars>>

DecoderIdle ==
    /\ raw_bytes = <<>>
    /\ index = 0
    /\ manufacturer_data = EmptyMap
    /\ dpc = "idle"


(***************************************************************************)
(* The bridge: result retrieval and fault classification,                  *)
(* peripheral.rs:49-199, and the call protocol of with_obj,                *)
(* peripheral.rs:243-262.                                                  *)
(*                                                                         *)
(* A host exception is [fe, cause, msg]: fe says whether it is a           *)
(* FutureException (the "completion failed" fault), cause is the set of    *)
(* classes its getCause() is an instance of, msg is the cause's message.   *)
(***************************************************************************)
NamedClasses ==
    << "NotConnectedException", "PermissionDeniedException",
       "UnexpectedCallbackException", "UnexpectedCharacteristicException",
       "NoSuchCharacteristicException" >>

CauseClasses ==
    { NamedClasses[k] : k \in DOMAIN NamedClasses } \cup { "RuntimeException" }

Messages == { "m1", "m2" }

FutureExceptions ==
    [ fe : {TRUE}, cause : SUBSET CauseClasses, msg : Messages ]

OtherExceptions == [ fe : {FALSE}, cause : {{}}, msg : {"m1"} ]

Exceptions == FutureExceptions \cup OtherExceptions

Returned(err, msg, pending) == [ err |-> err, msg |-> msg, pending |-> pending ]

\* A variant of map_future_exception without the RuntimeException arm.
map_future_exception_no_runtime(ex) ==
    IF "NotConnectedException" \in ex.cause
    THEN Returned("NotConnected", "", <<>>)
    ELSE IF "PermissionDeniedException" \in ex.cause
    THEN Returned("PermissionDenied", "", <<>>)
    ELSE IF "UnexpectedCallbackException" \in ex.cause
    THEN Returned("UnexpectedCallback", "", <<>>)
    ELSE IF "UnexpectedCharacteristicException" \in ex.cause
    THEN Returned("UnexpectedCharacteristic", "", <<>>)
    ELSE IF "NoSuchCharacteristicException" \in ex.cause
    THEN Returned("NoSuchCharacteristic", "", <<>>)
    ELSE Returned("JavaException", "", <<ex>>)

\* A variant of map_future_exception that tests RuntimeException first.
map_future_exception_runtime_first(ex) ==
    IF "RuntimeException" \in ex.cause
    THEN Returned("RuntimeError", ex.msg, <<>>)
    ELSE map_future_exception_no_runtime(ex)

\* map_future_exception: Ok(Error::X) leaves nothing pending; the last arm
\* throws ex again and returns Err(JavaException).
map_future_exception(ex) ==
    IF "NotConnectedException" \in ex.cause
    THEN Returned("NotConnected", "", <<>>)
    ELSE IF "PermissionDeniedException" \in ex.cause
    THEN Returned("PermissionDenied", "", <<>>)
    ELSE IF "UnexpectedCallbackException" \in ex.cause
    THEN Returned("UnexpectedCallback", "", <<>>)
    ELSE IF "UnexpectedCharacteristicException" \in ex.cause
    THEN Returned("UnexpectedCharacteristic", "", <<>>)
    ELSE IF "NoSuchCharacteristicException" \in ex.cause
    THEN Returned("NoSuchCharacteristic", "", <<>>)
    ELSE IF "RuntimeException" \in ex.cause
    THEN Returned("RuntimeError", ex.msg, <<>>)
    ELSE Returned("JavaException", "", <<ex>>)

\* A variant of Classify that does not throw a foreign exception again.
Classify_swallow(ex) ==
    IF ex.fe THEN map_future_exception(ex)
    ELSE Returned("JavaException", "", <<>>)

\* The handling of an exception taken from the runtime:
\* exception_occurred, exception_clear, then classify a FutureException and
\* throw anything else again (peripheral.rs:129-143, 154-168, 179-195).
Classify(ex) ==
    IF ex.fe THEN map_future_exception(ex)
    ELSE Returned("JavaException", "", <<ex>>)

\* check_pending_exception: Ok(()) when nothing is pending.
check_pending_exception(pending) ==
    IF pending = <<>> THEN Returned("Ok", "", <<>>)
    ELSE Classify(pending[1])

\* What a retrieval hands back besides its result: the exception it met
\* and whether it got as far as new_local_ref on the completion result.
Polled(r, met, materialized) ==
    [ err |-> r.err, msg |-> r.msg, pending |-> r.pending,
      met |-> met, materialized |-> materialized ]

\* A variant of poll_result_from_future that takes the completion result
\* before it looks for a pending exception.
poll_result_from_future_materialize_first(pending, materialize) ==
    IF materialize # <<>>
    THEN Polled(Classify(materialize[1]), materialize, TRUE)
    ELSE LET chk == check_pending_exception(pending) IN
         Polled(chk, pending, TRUE)

\* poll_result_from_future, given what new_local_ref does: <<>> (a
\* reference) or <<ex>> (it raised ex).
poll_result_from_future(pending, materialize) ==
    LET chk == check_pending_exception(pending) IN
    IF chk.err # "Ok" THEN Polled(chk, pending, FALSE)
    ELSE IF materialize # <<>>
    THEN Polled(Classify(materialize[1]), materialize, TRUE)
    ELSE Polled(Returned("Ok", "", <<>>), <<>>, TRUE)

\* get_poll_result, given what JPollResult::get does: <<>> (the value) or
\* <<ex>> (it raised ex).
get_poll_result(get) ==
    IF get = <<>> THEN Returned("Ok", "", <<>>)
    ELSE Classify(get[1])

\* A variant of with_obj_precall without the pending-exception check.
with_obj_precall_unchecked(attached, pending) ==
    IF ~attached
    THEN [ call |-> FALSE, err |-> "JniError", pending |-> pending ]
    ELSE [ call |-> TRUE, err |-> "Ok", pending |-> pending ]

\* with_obj before f runs (lines 250-260): get_env, then exception_check,
\* which clears a pending exception and returns Err(JavaException).
with_obj_precall(attached, pending) ==
    IF ~attached
    THEN [ call |-> FALSE, err |-> "JniError", pending |-> pending ]
    ELSE IF pending # <<>>
    THEN [ call |-> FALSE, err |-> "JavaException", pending |-> <<>> ]
    ELSE [ call |-> TRUE, err |-> "Ok", pending |-> <<>> ]

\* bout: err and msg are what was returned, met the exception retrieval
\* met, materialized whether it reached the completion result, pre what
\* with_obj found before the call.
Outcome(err, msg, met, materialized, pre) ==
    [ err |-> err, msg |-> msg, met |-> met,
      materialized |-> materialized, pre |-> pre ]

NoOutcome == Outcome("none", "", <<>>, FALSE, "ok")

BridgeIdle ==
    /\ bpc = "idle"
    /\ env_exception = <<>>
    /\ bout = NoOutcome
    /\ bcalls = 0

\* with_obj up to and including the host call f makes: attach (get_env),
\* the pending check, then the call, which hands back a future or raises.
WithObj ==
    /\ bpc \in {"idle", "done"}
    /\ \E attached \in BOOLEAN, thrown \in {<<>>} \cup { <<e>> : e \in OtherExceptions } :
          LET pre == with_obj_precall(attached, env_exception)
              found == IF ~attached THEN "attach_failed"
                       ELSE IF env_exception # <<>> THEN "pending" ELSE "ok"
          IN  IF ~pre.call
              THEN /\ bpc' = "done"
                   /\ env_exception' = pre.pending
                   /\ bout' = Outcome(pre.err, "", <<>>, FALSE, found)
                   /\ bcalls' = 0
              ELSE /\ bcalls' = 1
                   /\ env_exception' = IF thrown # <<>> THEN thrown ELSE pre.pending
                   /\ IF thrown = <<>>
                      THEN bpc' = "await" /\ bout' = Outcome("none", "", <<>>, FALSE, found)
                      ELSE /\ bpc' = "done"
                           /\ bout' = Outcome("JavaException", "", <<>>, FALSE, found)
    /\ UNCHANGED <<dvars, svars, lvars>>

\* future.await? followed by poll_result_from_future.
PollResultFromFuture ==
    /\ bpc = "await"
    /\ \E materialize \in {<<>>} \cup { <<e>> : e \in OtherExceptions } :
          LET r == poll_result_from_future(env_exception, materialize) IN
              /\ env_exception' = r.pending
              /\ IF r.err = "Ok"
                 THEN /\ bpc' = "get"
                      /\ bout' = Outcome("none", "", <<>>, r.materialized, "ok")
                 ELSE /\ bpc' = "done"
                      /\ bout' = Outcome(r.err, r.msg, r.met, r.materialized, "ok")
    /\ UNCHANGED <<bcalls, dvars, svars, lvars>>

GetPollResult ==
    /\ bpc = "get"
    /\ \E get \in {<<>>} \cup { <<e>> : e \in Exceptions } :
          LET r == get_poll_result(get) IN
              /\ env_exception' = r.pending
              /\ bpc' = "done"
              /\ bout' = Outcome(r.err, r.msg, get, TRUE, "ok")
    /\ UNCHANGED <<bcalls, dvars, svars, lvars>>

\* Another activity on the thread leaves an exception pending while the
\* call is suspended.
HostRaises ==
    /\ bpc = "await"
    /\ env_exception = <<>>
    /\ \E e \in Exceptions : env_exception' = <<e>>
    /\ UNCHANGED <<bpc, bout, bcalls, dvars, svars, lvars>>

(***************************************************************************)
(* The session, peripheral.rs:201-521.                                     *)
(*                                                                         *)
(* BTreeSet<T> holds one element per value of T: api::Service,             *)
(* api::Characteristic and api::Descriptor derive their ordering from all  *)
(* of their fields, so a BTreeSet of them is a set of records here.        *)
(* Option<T> is <<>> (None) or <<v>> (Some(v)).                            *)
(***************************************************************************)
FutureOps ==
    { "connect", "disconnect", "discover_services", "read", "write",
      "subscribe", "unsubscribe", "read_descriptor", "write_descriptor" }

SyncOps == { "is_connected", "mtu" }

GatedOps == FutureOps \cup SyncOps

SessionOps == GatedOps \cup { "notifications" }

\* Peripheral::new: the session state of a fresh peripheral.
NewShared == [ services |-> {}, characteristics |-> {}, properties |-> <<>> ]

\* The accessors: a clone of the field, taken under the lock.
services == shared.services
characteristics == shared.characteristics
properties == shared.properties

\* ensure_available: the Weak upgrades and the manager still has the id.
ensure_available == adapter.alive /\ adapter.tracked

\* A variant of report_properties that keeps the first report's value.
report_properties_keep_first(sh, props) ==
    IF sh.properties = <<>> THEN [sh EXCEPT !.properties = <<props>>] ELSE sh

\* report_properties: guard.properties = Some(properties).
report_properties(sh, props) == [sh EXCEPT !.properties = <<props>>]

\* CharPropFlags::from_bits_truncate(flags as u8): every bit of the u8 is a
\* defined flag, so the low eight bits are kept.
get_properties(flags) == flags % 256

\* Lines 386-399: the Characteristic built from a host characteristic.
BuildCharacteristic(svc, hc) ==
    [ service_uuid |-> svc.uuid,
      uuid |-> hc.uuid,
      properties |-> get_properties(hc.properties),
      descriptors |->
          { [ uuid |-> hc.descriptors[k],
              service_uuid |-> svc.uuid,
              characteristic_uuid |-> hc.uuid ] : k \in DOMAIN hc.descriptors } ]

\* Lines 402-410: the first n host characteristics of svc, after the
\* filter that keeps a characteristic only when the service's set holds
\* none with its (service_uuid, uuid). The result is the pushed order.
RECURSIVE KeptCharacteristics(_, _)
KeptCharacteristics(svc, n) ==
    IF n = 0 THEN <<>>
    ELSE LET before == KeptCharacteristics(svc, n - 1)
             char == BuildCharacteristic(svc, svc.characteristics[n])
         IN  IF \E k \in DOMAIN before :
                    /\ before[k].service_uuid = char.service_uuid
                    /\ before[k].uuid = char.uuid
             THEN before
             ELSE Append(before, char)

Range(seq) == { seq[k] : k \in DOMAIN seq }

\* A variant of is_primary that reports the host's flag.
is_primary_from_host(svc) == svc.primary

\* JBluetoothGattService::is_primary: the host is not asked.
is_primary(svc) == TRUE

\* A variant of BuildService whose set takes every host characteristic,
\* the filtered-out ones included.
BuildService_unfiltered(svc) ==
    [ uuid |-> svc.uuid,
      primary |-> is_primary(svc),
      characteristics |->
          { BuildCharacteristic(svc, svc.characteristics[k])
              : k \in DOMAIN svc.characteristics } ]

\* Lines 412-416: the Service pushed for a host service.
BuildService(svc) ==
    [ uuid |-> svc.uuid,
      primary |-> is_primary(svc),
      characteristics |->
          Range(KeptCharacteristics(svc, Len(svc.characteristics))) ]

\* Lines 378-417: the two vectors after the loop has finished the first n
\* host services.
RECURSIVE BuildTree(_, _)
BuildTree(list, n) ==
    IF n = 0 THEN [ peripheral_services |-> <<>>, peripheral_characteristics |-> <<>> ]
    ELSE LET before == BuildTree(list, n - 1) IN
         [ peripheral_services |->
               Append(before.peripheral_services, BuildService(list[n])),
           peripheral_characteristics |->
               before.peripheral_characteristics
                   \o KeptCharacteristics(list[n], Len(list[n].characteristics)) ]

\* The places where reading a host attribute can fail: <<i, j>> is the
\* j-th characteristic of the i-th service (j one past the last: the
\* service's own uuid, line 413); <<0, 0>> is no failure.
FailPoints(list) ==
    { <<0, 0>> } \cup
    { <<i, j>> : i \in DOMAIN list, j \in 1..(MaxAttrs + 1) }

ValidFailPoint(list, fp) ==
    IF fp = <<0, 0>> THEN TRUE
    ELSE fp[2] <= Len(list[fp[1]].characteristics) + 1

\* The vectors as they stand when the loop ends (ok) or when the read at
\* fp fails and the function returns early through `?`.
BuildUpTo(list, fp) ==
    IF fp = <<0, 0>>
    THEN [ ok |-> TRUE, tree |-> BuildTree(list, Len(list)) ]
    ELSE LET before == BuildTree(list, fp[1] - 1) IN
         [ ok |-> FALSE,
           tree |-> [ peripheral_services |-> before.peripheral_services,
                      peripheral_characteristics |->
                          before.peripheral_characteristics
                              \o KeptCharacteristics(list[fp[1]], fp[2] - 1) ] ]

\* A variant of the commit that merges the new sets into the old ones.
discover_services_commit_merge(sh, built) ==
    IF built.ok
    THEN [ sh EXCEPT !.services = @ \cup Range(built.tree.peripheral_services),
                     !.characteristics =
                         @ \cup Range(built.tree.peripheral_characteristics) ]
    ELSE sh

\* A variant of the commit that stores whatever was built, failed or not.
discover_services_commit_partial(sh, built) ==
    [ sh EXCEPT !.services = Range(built.tree.peripheral_services),
                !.characteristics = Range(built.tree.peripheral_characteristics) ]

\* Lines 418-421: the commit, reached only when nothing failed.
discover_services_commit(sh, built) ==
    IF built.ok
    THEN [ sh EXCEPT !.services = Range(built.tree.peripheral_services),
                     !.characteristics = Range(built.tree.peripheral_characteristics) ]
    ELSE sh

\* A variant of bridged_done that forgets the discovered tree.
bridged_done_clears(sh) == [ sh EXCEPT !.services = {}, !.characteristics = {} ]

\* connect, disconnect, read, write, ...: the session state is not touched.
bridged_done(sh) == sh

\* A variant of abandoned_result in which the dropped call's result is
\* committed all the same.
abandoned_result_committed(sh, list) ==
    discover_services_commit(sh, BuildUpTo(list, <<0, 0>>))

\* A future dropped at `future.await` (line 371): nothing after the await
\* runs, whatever the host operation yields.
abandoned_result(sh, list) == sh

InFlightTotal(fl) ==
    LET RECURSIVE Sum(_)
        Sum(S) == IF S = {} THEN 0
                  ELSE LET x == CHOOSE y \in S : TRUE IN fl[x] + Sum(S \ {x})
    IN  Sum(DOMAIN fl)

NoneInFlight == [ op \in FutureOps |-> 0 ]

\* A variant of host_call in which unsubscribe asks the host to enable.
host_call_enabling(op) ==
    [ method |-> IF op \in {"subscribe", "unsubscribe"}
                 THEN "set_characteristic_notification"
                 ELSE op,
      enable |-> IF op \in {"subscribe", "unsubscribe"} THEN <<TRUE>> ELSE <<>> ]

\* The host method an operation calls inside with_obj, and the enable
\* flag it passes when the method is set_characteristic_notification
\* (lines 463 and 469: true for subscribe, false for unsubscribe).
host_call(op) ==
    [ method |-> IF op \in {"subscribe", "unsubscribe"}
                 THEN "set_characteristic_notification"
                 ELSE op,
      enable |-> IF op = "subscribe" THEN <<TRUE>>
                 ELSE IF op = "unsubscribe" THEN <<FALSE>>
                 ELSE <<>> ]

\* The record of a step: what happened (kind, op), how it ended (out, and
\* value for an operation returning a number), the host calls it issued
\* (their number and the calls themselves), whether it ran without
\* suspending, and the host input it consumed.
Event(kind, op, out, calls, immediate, list, scan) ==
    [ kind |-> kind, op |-> op, out |-> out, calls |-> calls,
      issued |-> [k \in 1..calls |-> host_call(op)],
      immediate |-> immediate, list |-> list, scan |-> scan,
      host |-> <<>>, value |-> <<>> ]

\* What with_obj meets before the call: "ok", a failed attach, or a
\* pending host exception (lines 250-259).
PreCall == { "ok", "attach_failed", "pending" }

\* A variant of CallFuture that issues a host call only when no other
\* invocation of the peripheral is in flight.
CallFuture_serialized(op) ==
    /\ op \in FutureOps
    /\ IF ~ensure_available
       THEN /\ last' = Event("return", op, "DeviceNotFound", 0, TRUE, <<>>, <<>>)
            /\ UNCHANGED inflight
       ELSE \E pre \in PreCall :
               IF pre # "ok"
               THEN /\ last' = Event("return", op, "JniError", 0, TRUE, <<>>, <<>>)
                    /\ UNCHANGED inflight
               ELSE \E thrown \in BOOLEAN :
                       IF thrown
                       THEN /\ last' = Event("return", op, "JavaException", 1, TRUE, <<>>, <<>>)
                            /\ UNCHANGED inflight
                       ELSE /\ InFlightTotal(inflight) < MaxInFlight
                            /\ InFlightTotal(inflight) = 0
                            /\ inflight' = [inflight EXCEPT ![op] = @ + 1]
                            /\ last' = Event("call", op, "pending", 1, FALSE, <<>>, <<>>)
    /\ UNCHANGED <<adapter, gatt, shared, orphans, stream, dvars, bvars, lvars>>

\* An operation that awaits a bridged future, up to its await: the gate,
\* with_obj, the host call. subscribe and unsubscribe pass the gate twice
\* (lines 462 and 269) before the one call.
CallFuture(op) ==
    /\ op \in FutureOps
    /\ IF ~ensure_available
       THEN /\ last' = Event("return", op, "DeviceNotFound", 0, TRUE, <<>>, <<>>)
            /\ UNCHANGED inflight
       ELSE \E pre \in PreCall :
               IF pre # "ok"
               THEN /\ last' = Event("return", op, "JniError", 0, TRUE, <<>>, <<>>)
                    /\ UNCHANGED inflight
               ELSE \E thrown \in BOOLEAN :
                       IF thrown
                       THEN /\ last' = Event("return", op, "JavaException", 1, TRUE, <<>>, <<>>)
                            /\ UNCHANGED inflight
                       ELSE /\ InFlightTotal(inflight) < MaxInFlight
                            /\ inflight' = [inflight EXCEPT ![op] = @ + 1]
                            /\ last' = Event("call", op, "pending", 1, FALSE, <<>>, <<>>)
    /\ UNCHANGED <<adapter, gatt, shared, orphans, stream, dvars, bvars, lvars>>

\* What the host's completion does when the result is taken: <<>> is a
\* value, <<ex>> the exception JPollResult::get raises.
SessionCompletions ==
    { <<>>,
      << [ fe |-> TRUE, cause |-> {"NotConnectedException", "RuntimeException"}, msg |-> "m1" ] >>,
      << [ fe |-> TRUE, cause |-> {}, msg |-> "m1" ] >> }

\* Lines after `future.await?`: retrieval of the result and, for
\* discover_services, the build and the commit.
AfterAwait(op) ==
    /\ op \in FutureOps
    /\ inflight[op] > 0
    /\ inflight' = [inflight EXCEPT ![op] = @ - 1]
    /\ \E get \in SessionCompletions :
          LET polled == poll_result_from_future(<<>>, <<>>)
              r == IF polled.err # "Ok" THEN polled ELSE get_poll_result(get)
          IN  IF r.err # "Ok"
              THEN /\ last' = Event("return", op, r.err, 1, FALSE, <<>>, <<>>)
                   /\ UNCHANGED shared
              ELSE IF op = "discover_services"
              THEN \E fp \in FailPoints(gatt) :
                      /\ ValidFailPoint(gatt, fp)
                      /\ LET built == BuildUpTo(gatt, fp) IN
                            /\ shared' = discover_services_commit(shared, built)
                            /\ last' = Event("return", op,
                                             IF built.ok THEN "Ok" ELSE "JniError",
                                             1, FALSE,
                                             IF built.ok THEN gatt ELSE <<>>, <<>>)
              ELSE /\ shared' = bridged_done(shared)
                   /\ last' = Event("return", op, "Ok", 1, FALSE, <<>>, <<>>)
    /\ UNCHANGED <<adapter, gatt, orphans, stream, dvars, bvars, lvars>>

\* A variant of Resume that passes the gate again when it wakes up.
Resume_rechecked(op) ==
    IF ensure_available
    THEN AfterAwait(op)
    ELSE /\ op \in FutureOps
         /\ inflight[op] > 0
         /\ inflight' = [inflight EXCEPT ![op] = @ - 1]
         /\ last' = Event("return", op, "DeviceNotFound", 1, FALSE, <<>>, <<>>)
         /\ UNCHANGED <<adapter, gatt, shared, orphans, stream, dvars, bvars, lvars>>

\* The rest of an operation, from its await to its return: the task is
\* woken by the host's completion and runs on, whatever has happened to
\* the adapter meanwhile.
Resume(op) == AfterAwait(op)

\* What JPeripheral::get_mtu does: it returns a jint, or raises an
\* exception that is an instance of the classes in thrown[1].
HostMtu(v) == [ thrown |-> <<>>, value |-> v ]
HostMtuThrows(classes) == [ thrown |-> <<classes>>, value |-> 0 ]

\* A variant of mtu_result without the catch of NotConnectedException.
mtu_result_uncaught(h) ==
    IF h.thrown # <<>> THEN [ out |-> "JavaException", value |-> <<>> ]
    ELSE IF h.value \in 0..65535 THEN [ out |-> "Ok", value |-> <<h.value>> ]
    ELSE [ out |-> "Other", value |-> <<>> ]

\* Lines 326-339: try_block(get_mtu).catch(NotConnectedException), then
\* u16::try_from; "Other" is Error::Other("MTU conversion failed").
mtu_result(h) ==
    IF h.thrown # <<>>
    THEN IF "NotConnectedException" \in h.thrown[1]
         THEN [ out |-> "NotConnected", value |-> <<>> ]
         ELSE [ out |-> "JavaException", value |-> <<>> ]
    ELSE IF h.value \in 0..65535 THEN [ out |-> "Ok", value |-> <<h.value>> ]
    ELSE [ out |-> "Other", value |-> <<>> ]

\* mtu with the host behaving as h: the gate, with_obj, the query.
MtuCall(h) ==
    /\ IF ~ensure_available
       THEN last' = Event("return", "mtu", "DeviceNotFound", 0, TRUE, <<>>, <<>>)
       ELSE \E pre \in PreCall :
               IF pre # "ok"
               THEN last' = Event("return", "mtu", "JniError", 0, TRUE, <<>>, <<>>)
               ELSE LET r == mtu_result(h) IN
                    last' = [ Event("return", "mtu", r.out, 1, TRUE, <<>>, <<>>)
                                EXCEPT !.host = <<h>>, !.value = r.value ]
    /\ UNCHANGED <<adapter, gatt, shared, inflight, orphans, stream, dvars, bvars, lvars>>

SessionMtuResults ==
    { HostMtu(517), HostMtu(65536), HostMtuThrows({"NotConnectedException"}),
      HostMtuThrows({"RuntimeException"}) }

mtu == \E h \in SessionMtuResults : MtuCall(h)

\* The host behaviours of SpecMtu: values around the ends of the u16
\* range and of the jint range, and exceptions of each kind.
MtuValues ==
    (-5..130) \cup { 185, 512, 517, 32767, 32768, 65534, 65535, 65536, 65537,
                    131072 + 23, 2147483647, -2147483647 - 1, -65536 + 23 }

MtuResults ==
    { HostMtu(v) : v \in MtuValues } \cup
    { HostMtuThrows(c) : c \in { {"NotConnectedException"},
                                 {"NotConnectedException", "RuntimeException"},
                                 {"RuntimeException"}, {"PermissionDeniedException"}, {} } }

mtu_any == \E h \in MtuResults : MtuCall(h)

\* The caller drops the future of a suspended invocation (a timeout it
\* raced against the call fired). Nothing is sent to the host.
Abandon(op) ==
    /\ op \in FutureOps
    /\ inflight[op] > 0
    /\ orphans < MaxInFlight
    /\ inflight' = [inflight EXCEPT ![op] = @ - 1]
    /\ orphans' = orphans + 1
    /\ last' = Event("abandon", op, "dropped", 0, FALSE, <<>>, <<>>)
    /\ UNCHANGED <<adapter, gatt, shared, stream, dvars, bvars, lvars>>

\* The host operation of a dropped invocation completes.
OrphanCompletes ==
    /\ orphans > 0
    /\ orphans' = orphans - 1
    /\ shared' = abandoned_result(shared, gatt)
    /\ last' = Event("host_done", "", "discarded", 0, FALSE, <<>>, <<>>)
    /\ UNCHANGED <<adapter, gatt, inflight, stream, dvars, bvars, lvars>>

\* is_connected: the gate, then one host query inside with_obj.
CallSync(op) ==
    /\ op = "is_connected"
    /\ IF ~ensure_available
       THEN last' = Event("return", op, "DeviceNotFound", 0, TRUE, <<>>, <<>>)
       ELSE \E pre \in PreCall, out \in {"Ok", "JavaException"} :
               IF pre # "ok"
               THEN last' = Event("return", op, "JniError", 0, TRUE, <<>>, <<>>)
               ELSE last' = Event("return", op, out, 1, TRUE, <<>>, <<>>)
    /\ UNCHANGED <<adapter, gatt, shared, inflight, orphans, stream, dvars, bvars, lvars>>

\* The notification stream: emitted is what the host stream has yielded,
\* closed whether the host stream has ended; delivered is what the stream
\* returned by notifications() has yielded, ended whether it has ended.
NoStream ==
    [ open |-> FALSE, emitted |-> <<>>, closed |-> FALSE,
      delivered |-> <<>>, ended |-> FALSE ]

OpenStream == [ NoStream EXCEPT !.open = TRUE ]

\* notifications: with_obj and get_notifications, with no gate before
\* them. tracked says whether the returned stream is followed in `stream`
\* (the first one returned is).
NotificationsCall(tracked) ==
    /\ \E pre \in PreCall, out \in {"Ok", "JavaException"} :
          IF pre # "ok"
          THEN /\ last' = Event("return", "notifications", "JniError", 0, TRUE, <<>>, <<>>)
               /\ UNCHANGED stream
          ELSE /\ last' = Event("return", "notifications", out, 1, TRUE, <<>>, <<>>)
               /\ stream' = IF tracked /\ out = "Ok" /\ ~stream.open
                            THEN OpenStream ELSE stream
    /\ UNCHANGED <<adapter, gatt, shared, inflight, orphans, dvars, bvars, lvars>>

notifications == NotificationsCall(FALSE)

notifications_stream == NotificationsCall(TRUE)

\* What the host stream yields: a characteristic event that decodes, an
\* object whose decode fails (get_uuid or get_value raises), or an error
\* item.
StreamItems ==
    [ kind : {"event"}, uuid : {1, 2}, value : { <<>>, <<7>> } ] \cup
    [ kind : {"undecodable", "error"}, uuid : {0}, value : { <<>> } ]

\* Lines 478-487, the closure given to map: Ok(ValueNotification) is
\* <<notification>>, Err is <<>>.
notification_map(item) ==
    IF item.kind = "event"
    THEN << [ uuid |-> item.uuid, value |-> item.value ] >>
    ELSE <<>>

\* A variant of stream_next in which a failed item ends the stream.
stream_next_until_error(st, item) ==
    IF st.ended THEN st
    ELSE LET m == notification_map(item) IN
         IF m = <<>> THEN [ st EXCEPT !.ended = TRUE ]
         ELSE [ st EXCEPT !.delivered = Append(@, m[1]) ]

\* Lines 476-488: map, then filter_map(|item| item.ok()): the consumer's
\* stream after the host stream yielded item.
stream_next(st, item) ==
    IF st.ended THEN st
    ELSE LET m == notification_map(item) IN
         IF m = <<>> THEN st
         ELSE [ st EXCEPT !.delivered = Append(@, m[1]) ]

\* The host stream yields one more item.
StreamYields ==
    /\ stream.open /\ ~stream.closed
    /\ Len(stream.emitted) < MaxEvents
    /\ \E item \in StreamItems :
          stream' = [ stream_next(stream, item) EXCEPT !.emitted = Append(@, item) ]
    /\ UNCHANGED <<adapter, gatt, shared, inflight, last, orphans, dvars, bvars, lvars>>

\* The host stream ends; so does the stream built on it.
StreamEnds ==
    /\ stream.open /\ ~stream.closed
    /\ stream' = [ stream EXCEPT !.closed = TRUE, !.ended = TRUE ]
    /\ UNCHANGED <<adapter, gatt, shared, inflight, last, orphans, dvars, bvars, lvars>>

(***************************************************************************)
(* The scan result conversion, objects.rs:635-791, as far as the session   *)
(* state depends on it: a null scan record gives None, any other the       *)
(* properties with the decoded manufacturer data.                          *)
(***************************************************************************)
RECURSIVE AdLoop(_, _, _)
AdLoop(raw, i, md) ==
    LET s == AdStep(raw, i, md) IN
    IF s.pc = "loop" THEN AdLoop(raw, s.index, s.md) ELSE s

\* `v as i16` for a jint v: the low 16 bits, read as two's complement.
AsI16(v) == LET low == v % 65536 IN IF low >= 32768 THEN low - 65536 ELSE low

TX_POWER_NOT_PRESENT == 127

\* A variant of tx_power_level that keeps the jint as it is.
tx_power_level_unnarrowed(v) ==
    IF v = TX_POWER_NOT_PRESENT THEN <<>> ELSE <<v>>

\* Lines 677-683: None for the sentinel, Some(v as i16) otherwise.
tx_power_level(v) ==
    IF v = TX_POWER_NOT_PRESENT THEN <<>> ELSE <<AsI16(v)>>

\* scan.record is <<>> (null) or <<raw_bytes>>, scan.tx_power the jint
\* get_tx_power returns. The result is [panic, properties]: properties is
\* the Option<PeripheralProperties>.
TryFromScanResult(scan) ==
    IF scan.record = <<>> THEN [ panic |-> FALSE, properties |-> <<>> ]
    ELSE LET s == AdLoop(scan.record[1], 0, EmptyMap) IN
         IF s.pc = "panic" THEN [ panic |-> TRUE, properties |-> <<>> ]
         ELSE [ panic |-> FALSE,
                properties |-> << [ manufacturer_data |-> s.md,
                                    tx_power_level |-> tx_power_level(scan.tx_power) ] >> ]

ReportRecords ==
    { <<>>, << <<4, 255, 76, 0, 2>> >>, << <<5, 255, 6, 0, 170, 187>> >> }

ScanResults == [ record : ReportRecords, tx_power : {-59} ]

\* The adapter's handling of one scan result: the conversion, then
\* report_properties when it produced properties.
ReportScan(scan) ==
    /\ LET conv == TryFromScanResult(scan) IN
          /\ shared' = IF conv.properties = <<>>
                       THEN shared
                       ELSE report_properties(shared, conv.properties[1])
          /\ last' = Event("report", "", IF conv.panic THEN "panic" ELSE "Ok",
                           0, TRUE, <<>>, <<scan>>)
    /\ UNCHANGED <<adapter, gatt, inflight, orphans, stream, dvars, bvars, lvars>>

report_scan_result == \E scan \in ScanResults : ReportScan(scan)

\* The jint values get_tx_power is given in SpecScan: the sentinel, its
\* neighbours, the i16 limits and values beyond them, the jint limits.
TxPowers ==
    (-130..130) \cup { 32767 + d : d \in -2..2 } \cup { -32768 + d : d \in -2..2 }
    \cup { 65536 + d : d \in {-59, 0, 127} } \cup { -65536 + d : d \in {-59, 0, 127} }
    \cup { 2147483647, -2147483647 - 1, 2147418239 }

TxScanResults == [ record : { << <<4, 255, 76, 0, 2>> >> }, tx_power : TxPowers ]

report_tx_power == \E scan \in TxScanResults : ReportScan(scan)

(***************************************************************************)
(* The environment of the session: the adapter and the host's GATT table.  *)
(***************************************************************************)
AdapterDropped ==
    /\ adapter.alive
    /\ adapter' = [ alive |-> FALSE, tracked |-> FALSE ]
    /\ last' = Event("adapter", "", "dropped", 0, TRUE, <<>>, <<>>)
    /\ UNCHANGED <<gatt, shared, inflight, orphans, stream, dvars, bvars, lvars>>

PeripheralRemoved ==
    /\ adapter.alive /\ adapter.tracked
    /\ adapter' = [adapter EXCEPT !.tracked = FALSE]
    /\ last' = Event("adapter", "", "removed", 0, TRUE, <<>>, <<>>)
    /\ UNCHANGED <<gatt, shared, inflight, orphans, stream, dvars, bvars, lvars>>

PeripheralAdded ==
    /\ adapter.alive /\ ~adapter.tracked
    /\ adapter' = [adapter EXCEPT !.tracked = TRUE]
    /\ last' = Event("adapter", "", "added", 0, TRUE, <<>>, <<>>)
    /\ UNCHANGED <<gatt, shared, inflight, orphans, stream, dvars, bvars, lvars>>

(***************************************************************************)
(* Input buffers: every concatenation of at most MaxChunks chunks, a chunk *)
(* being one byte or one AD structure.                                     *)
(***************************************************************************)
ChunkBytes == {0, 1, 2, 3, 4, 76, 255}

AdStructures ==
    { <<4, 255, 76, 0, 2>>, <<4, 255, 76, 0, 170>>, <<4, 255, 76, 0, 187>>,
      <<4, 255, 0, 76, 2>>, <<3, 255, 76, 0>>, <<5, 255, 6, 0, 170, 187>>,
      <<2, 9, 1>>, <<4, 9, 76, 0, 2>>, <<1, 255>>, <<2, 255, 76>> }

Chunks == { <<b>> : b \in ChunkBytes } \cup AdStructures

RECURSIVE BuffersOf(_)
BuffersOf(n) ==
    IF n = 0 THEN { <<>> }
    ELSE LET shorter == BuffersOf(n - 1) IN
         shorter \cup { b \o c : b \in shorter, c \in Chunks }

Buffers == BuffersOf(MaxChunks)

(***************************************************************************)
(* Host GATT tables. HostLists holds every table of at most MaxAttrs       *)
(* attributes (services, characteristics and descriptors together).        *)
(***************************************************************************)
SvcUuids == {1, 2}
ChrUuids == {1, 2}
HostFlags == {2, 16, 258}

HostCharsOf(w) ==
    [ uuid : ChrUuids, properties : HostFlags,
      descriptors : { [k \in 1..(w - 1) |-> 1] } ]

RECURSIVE CharListsOf(_)
CharListsOf(n) ==
    IF n = 0 THEN { <<>> }
    ELSE UNION { { <<c>> \o rest : c \in HostCharsOf(w), rest \in CharListsOf(n - w) }
                 : w \in 1..n }

ServicesOf(w) ==
    [ uuid : SvcUuids, primary : BOOLEAN, characteristics : CharListsOf(w - 1) ]

RECURSIVE ListsOf(_)
ListsOf(n) ==
    IF n = 0 THEN { <<>> }
    ELSE UNION { { <<sv>> \o rest : sv \in ServicesOf(w), rest \in ListsOf(n - w) }
                 : w \in 1..n }

HostLists == UNION { ListsOf(n) : n \in 0..MaxAttrs }

\* The tables of two services with one characteristic each.
PairLists ==
    { << sv, sw >> : sv \in ServicesOf(2), sw \in ServicesOf(2) }

HostChar(u, f, ds) == [ uuid |-> u, properties |-> f, descriptors |-> ds ]
HostService(u, p, cs) == [ uuid |-> u, primary |-> p, characteristics |-> cs ]

\* The tables the session specification moves between.
SessionLists ==
    { << HostService(1, TRUE, << HostChar(1, 2, <<>>), HostChar(1, 16, <<>>) >>),
         HostService(1, FALSE, << HostChar(1, 16, <<>>) >>) >>,
      << HostService(2, TRUE, << HostChar(2, 258, <<1>>) >>) >> }

GattChanged ==
    /\ \E list \in SessionLists : list # gatt /\ gatt' = list
    /\ last' = Event("gatt", "", "changed", 0, TRUE, <<>>, <<>>)
    /\ UNCHANGED <<adapter, shared, inflight, orphans, stream, dvars, bvars, lvars>>

(***************************************************************************)
(* The Mutex of PeripheralShared, at the grain of its acquisitions:        *)
(* report_properties (237-241), the accessors properties, characteristics  *)
(* and services (308-316, 363-366), and the commit of discover_services    *)
(* (418-421). lock.by names the holder ("" when the Mutex is free), lock.t *)
(* the discover_services task when it is one. A task is "idle", "await"    *)
(* (suspended at line 371), "built" (the vectors are built, line 417),     *)
(* "locked" (line 418 done) or "services_set" (line 419 done).             *)
(***************************************************************************)
Tasks == 1..MaxInFlight

Accessors == {"properties", "characteristics", "services"}

Unlocked == [ by |-> "", t |-> 0 ]

NoBuild == [ ok |-> FALSE, tree |-> BuildTree(<<>>, 0) ]

IdleTask == [ pc |-> "idle", built |-> NoBuild ]

LockIdle ==
    /\ lock = Unlocked
    /\ task = [t \in Tasks |-> IdleTask]

\* A variant of DiscoverCall that takes the Mutex before the host call and
\* keeps it across the await.
DiscoverCall_locking(t) ==
    /\ task[t].pc = "idle"
    /\ ensure_available
    /\ lock = Unlocked
    /\ lock' = [ by |-> "discover_services", t |-> t ]
    /\ task' = [task EXCEPT ![t].pc = "await"]
    /\ last' = Event("call", "discover_services", "pending", 1, FALSE, <<>>, <<>>)
    /\ UNCHANGED <<adapter, gatt, shared, inflight, orphans, stream, dvars, bvars>>

\* Lines 369-371: the gate and the host call, up to the await. No
\* acquisition of the Mutex comes before line 418.
DiscoverCall(t) ==
    /\ task[t].pc = "idle"
    /\ IF ~ensure_available
       THEN /\ last' = Event("return", "discover_services", "DeviceNotFound",
                             0, TRUE, <<>>, <<>>)
            /\ UNCHANGED task
       ELSE /\ task' = [task EXCEPT ![t].pc = "await"]
            /\ last' = Event("call", "discover_services", "pending",
                             1, FALSE, <<>>, <<>>)
    /\ UNCHANGED <<adapter, gatt, shared, inflight, orphans, stream, lock, dvars, bvars>>

\* Lines 371-417: the host completes, the result is retrieved and the two
\* vectors are built; any failure returns early, the Mutex untouched.
DiscoverBuild(t) ==
    /\ task[t].pc = "await"
    /\ \E get \in SessionCompletions :
          LET polled == poll_result_from_future(<<>>, <<>>)
              r == IF polled.err # "Ok" THEN polled ELSE get_poll_result(get)
          IN  IF r.err # "Ok"
              THEN /\ task' = [task EXCEPT ![t] = IdleTask]
                   /\ last' = Event("return", "discover_services", r.err,
                                    1, FALSE, <<>>, <<>>)
              ELSE \E fp \in FailPoints(gatt) :
                      /\ ValidFailPoint(gatt, fp)
                      /\ LET built == BuildUpTo(gatt, fp) IN
                            IF built.ok
                            THEN /\ task' = [task EXCEPT ![t] =
                                        [ pc |-> "built", built |-> built ]]
                                 /\ UNCHANGED last
                            ELSE /\ task' = [task EXCEPT ![t] = IdleTask]
                                 /\ last' = Event("return", "discover_services",
                                                  "JniError", 1, FALSE, <<>>, <<>>)
    /\ UNCHANGED <<adapter, gatt, shared, inflight, orphans, stream, lock, dvars, bvars>>

\* Line 418: let mut guard = self.shared.lock().unwrap(). The thread
\* blocks while another holder has the Mutex.
DiscoverLock(t) ==
    /\ task[t].pc = "built"
    /\ lock = Unlocked
    /\ lock' = [ by |-> "discover_services", t |-> t ]
    /\ task' = [task EXCEPT ![t].pc = "locked"]
    /\ UNCHANGED <<adapter, gatt, shared, inflight, last, orphans, stream, dvars, bvars>>

\* A variant of DiscoverSetServices that lets go of the Mutex after the
\* first field.
DiscoverSetServices_unlocking(t) ==
    /\ task[t].pc = "locked"
    /\ lock = [ by |-> "discover_services", t |-> t ]
    /\ shared' = [shared EXCEPT !.services =
                      discover_services_commit(shared, task[t].built).services]
    /\ task' = [task EXCEPT ![t].pc = "services_set"]
    /\ lock' = Unlocked
    /\ UNCHANGED <<adapter, gatt, inflight, last, orphans, stream, dvars, bvars>>

\* Line 419: guard.services = BTreeSet::from_iter(peripheral_services).
DiscoverSetServices(t) ==
    /\ task[t].pc = "locked"
    /\ lock = [ by |-> "discover_services", t |-> t ]
    /\ shared' = [shared EXCEPT !.services =
                      discover_services_commit(shared, task[t].built).services]
    /\ task' = [task EXCEPT ![t].pc = "services_set"]
    /\ UNCHANGED <<adapter, gatt, inflight, last, orphans, stream, lock, dvars, bvars>>

\* Lines 420-422: guard.characteristics = ..., Ok(()), and the guard is
\* dropped at the end of the function.
DiscoverSetCharacteristics(t) ==
    /\ task[t].pc = "services_set"
    /\ lock = [ by |-> "discover_services", t |-> t ]
    /\ shared' = discover_services_commit(shared, task[t].built)
    /\ task' = [task EXCEPT ![t] = IdleTask]
    /\ lock' = Unlocked
    /\ last' = Event("return", "discover_services", "Ok", 1, FALSE,
                     <<>>, <<>>)
    /\ UNCHANGED <<adapter, gatt, inflight, orphans, stream, dvars, bvars>>

\* Lines 309, 314, 364: an accessor takes the Mutex.
AccessorLock(which) ==
    /\ which \in Accessors
    /\ lock = Unlocked
    /\ lock' = [ by |-> which, t |-> 0 ]
    /\ UNCHANGED <<adapter, gatt, shared, inflight, last, orphans, stream, task, dvars, bvars>>

\* Lines 310, 315, 365: the accessor clones its field and returns; the
\* guard is dropped. value is the clone.
AccessorReturn(which) ==
    /\ lock = [ by |-> which, t |-> 0 ]
    /\ which \in Accessors
    /\ lock' = Unlocked
    /\ last' = [ Event("return", which, "Ok", 0, TRUE, <<>>, <<>>)
                   EXCEPT !.value = << shared[which] >> ]
    /\ UNCHANGED <<adapter, gatt, shared, inflight, orphans, stream, task, dvars, bvars>>

\* Line 238: report_properties takes the Mutex.
ReportLock ==
    /\ lock = Unlocked
    /\ lock' = [ by |-> "report_properties", t |-> 0 ]
    /\ UNCHANGED <<adapter, gatt, shared, inflight, last, orphans, stream, task, dvars, bvars>>

\* Lines 239-241: the properties are stored and the guard is dropped.
ReportStore ==
    /\ lock = [ by |-> "report_properties", t |-> 0 ]
    /\ \E scan \in ScanResults :
          LET conv == TryFromScanResult(scan) IN
              /\ conv.properties # <<>>
              /\ shared' = report_properties(shared, conv.properties[1])
              /\ last' = Event("report", "", "Ok", 0, TRUE, <<>>, <<scan>>)
    /\ lock' = Unlocked
    /\ UNCHANGED <<adapter, gatt, inflight, orphans, stream, task, dvars, bvars>>

(***************************************************************************)
(* The specifications.                                                     *)
(***************************************************************************)
SessionIdle ==
    /\ adapter = [ alive |-> TRUE, tracked |-> TRUE ]
    /\ gatt = <<>>
    /\ shared = NewShared
    /\ inflight = NoneInFlight
    /\ last = Event("init", "", "", 0, TRUE, <<>>, <<>>)
    /\ orphans = 0
    /\ stream = NoStream
    /\ LockIdle

InitDecode ==
    /\ raw_bytes \in Buffers
    /\ index = 0
    /\ manufacturer_data = EmptyMap
    /\ dpc = "loop"
    /\ BridgeIdle
    /\ SessionIdle

NextDecode == AdIterate

SpecDecode == InitDecode /\ [][NextDecode]_vars

\* The decode runs inside one synchronous call: the loop is not preempted
\* for ever.
SpecDecodeFair == SpecDecode /\ WF_vars(AdIterate)

InitBridge == BridgeIdle /\ DecoderIdle /\ SessionIdle

NextBridge == WithObj \/ PollResultFromFuture \/ GetPollResult \/ HostRaises

SpecBridge == InitBridge /\ [][NextBridge]_vars

\* One peripheral and a fixed host table: discovery alone.
InitDiscover ==
    /\ adapter = [ alive |-> TRUE, tracked |-> TRUE ]
    /\ gatt \in HostLists \cup PairLists
    /\ shared = NewShared
    /\ inflight = NoneInFlight
    /\ last = Event("init", "", "", 0, TRUE, <<>>, <<>>)
    /\ orphans = 0
    /\ stream = NoStream
    /\ LockIdle
    /\ BridgeIdle
    /\ DecoderIdle

NextDiscover ==
    \/ CallFuture("discover_services")
    \/ Resume("discover_services")

SpecDiscover == InitDiscover /\ [][NextDiscover]_vars

\* The session: every operation, the reports and the environment.
InitScan ==
    /\ DecoderIdle
    /\ BridgeIdle
    /\ SessionIdle

NextScan == report_tx_power

SpecScan == InitScan /\ [][NextScan]_vars

InitMtu ==
    /\ DecoderIdle
    /\ BridgeIdle
    /\ SessionIdle

NextMtu == mtu_any \/ AdapterDropped \/ PeripheralRemoved \/ PeripheralAdded

SpecMtu == InitMtu /\ [][NextMtu]_vars

\* Discovery with callers that may stop awaiting.
NextCancel ==
    \/ CallFuture("discover_services")
    \/ Resume("discover_services")
    \/ Abandon("discover_services")
    \/ OrphanCompletes
    \/ GattChanged

InitStream ==
    /\ DecoderIdle
    /\ BridgeIdle
    /\ SessionIdle

NextStream == notifications_stream \/ StreamYields \/ StreamEnds

SpecStream == InitStream /\ [][NextStream]_vars

Init ==
    /\ adapter = [ alive |-> TRUE, tracked |-> TRUE ]
    /\ gatt \in SessionLists
    /\ shared = NewShared
    /\ inflight = NoneInFlight
    /\ last = Event("init", "", "", 0, TRUE, <<>>, <<>>)
    /\ orphans = 0
    /\ stream = NoStream
    /\ LockIdle
    /\ BridgeIdle
    /\ DecoderIdle

Next ==
    \/ \E op \in FutureOps : CallFuture(op)
    \/ \E op \in FutureOps : Resume(op)
    \/ CallSync("is_connected")
    \/ mtu
    \/ notifications
    \/ report_scan_result
    \/ AdapterDropped
    \/ PeripheralRemoved
    \/ PeripheralAdded
    \/ GattChanged

Spec == Init /\ [][Next]_vars

SpecCancel == Init /\ [][NextCancel]_vars

\* The bridged operations alone, while the adapter comes and goes.
NextOps ==
    \/ \E op \in FutureOps : CallFuture(op)
    \/ \E op \in FutureOps : Resume(op)
    \/ AdapterDropped
    \/ PeripheralRemoved
    \/ PeripheralAdded

SpecOps == Init /\ [][NextOps]_vars

\* The Mutex: MaxInFlight discover_services tasks, the accessors and the
\* property reports, while the host's table changes.
NextLock ==
    \/ \E t \in Tasks : DiscoverCall(t)
    \/ \E t \in Tasks : DiscoverBuild(t)
    \/ \E t \in Tasks : DiscoverLock(t)
    \/ \E t \in Tasks : DiscoverSetServices(t)
    \/ \E t \in Tasks : DiscoverSetCharacteristics(t)
    \/ \E which \in Accessors : AccessorLock(which)
    \/ \E which \in Accessors : AccessorReturn(which)
    \/ ReportLock
    \/ ReportStore
    \/ GattChanged

SpecLock == Init /\ [][NextLock]_vars

(***************************************************************************)
(* Properties.                                                             *)
(***************************************************************************)
Returned_(op) == last.kind = "return" /\ last.op = op

\* C1: every session operation invoked while the adapter is gone, or no
\* longer has this peripheral, fails with DeviceNotFound and makes no host
\* call; an invocation that reached its await found the peripheral present.
C1_GateBeforeHostCall ==
    /\ ( /\ last.kind = "return"
         /\ last.immediate
         /\ last.op \in SessionOps
         /\ ~(adapter.alive /\ adapter.tracked) )
       => (last.out = "DeviceNotFound" /\ last.calls = 0)
    /\ last.kind = "call" => (adapter.alive /\ adapter.tracked)

\* The positions <<i, j>> of the host characteristics, in traversal order.
Positions(list) ==
    { <<i, j>> : i \in DOMAIN list, j \in 1..MaxAttrs } \cap
    { pos \in (DOMAIN list) \X (1..MaxAttrs) :
          pos[2] <= Len(list[pos[1]].characteristics) }

KeyAt(list, pos) ==
    << list[pos[1]].uuid, list[pos[1]].characteristics[pos[2]].uuid >>

Earlier(a, b) == a[1] < b[1] \/ (a[1] = b[1] /\ a[2] < b[2])

CharAt(list, pos) ==
    BuildCharacteristic(list[pos[1]], list[pos[1]].characteristics[pos[2]])

\* C2: when two characteristics of a discovery result share their
\* (service UUID, characteristic UUID), the peripheral-wide set and every
\* service's set hold one entry for the pair, the first in traversal order.
C2_FirstOfEachPairKept ==
    (Returned_("discover_services") /\ last.out = "Ok") =>
        \A a \in Positions(last.list), b \in Positions(last.list) :
            (Earlier(a, b) /\ KeyAt(last.list, a) = KeyAt(last.list, b)
               /\ ~\E z \in Positions(last.list) :
                      Earlier(z, a) /\ KeyAt(last.list, z) = KeyAt(last.list, a))
            => LET key == KeyAt(last.list, a)
                   Same(c) == c.service_uuid = key[1] /\ c.uuid = key[2]
               IN  /\ { c \in characteristics : Same(c) } = { CharAt(last.list, a) }
                   /\ \A sv \in services :
                          { c \in sv.characteristics : Same(c) }
                              \subseteq { CharAt(last.list, a) }

\* C3: no two entries of the peripheral-wide characteristic set share
\* their (service UUID, characteristic UUID), and no two entries of the
\* service set share their service UUID.
C3_SetsUniqueByKey ==
    /\ \A c1 \in characteristics, c2 \in characteristics :
           (c1.service_uuid = c2.service_uuid /\ c1.uuid = c2.uuid) => c1 = c2
    /\ \A s1 \in services, s2 \in services : s1.uuid = s2.uuid => s1 = s2

\* C4: after a successful discover_services the two sets are exactly what
\* that call's host result gives: every entry comes from the result, every
\* service and characteristic of the result is present, and nothing of an
\* earlier discovery is left.
C4_DiscoveryReplaces ==
    (Returned_("discover_services") /\ last.out = "Ok") =>
        LET list == last.list IN
        /\ \A sv \in services :
               \E i \in DOMAIN list :
                   /\ sv.uuid = list[i].uuid
                   /\ \A c \in sv.characteristics :
                          \E j \in DOMAIN list[i].characteristics :
                              c = CharAt(list, <<i, j>>)
        /\ \A i \in DOMAIN list : \E sv \in services : sv.uuid = list[i].uuid
        /\ \A c \in characteristics :
               \E pos \in Positions(list) : c = CharAt(list, pos)
        /\ \A pos \in Positions(list) :
               \E c \in characteristics :
                   << c.service_uuid, c.uuid >> = KeyAt(list, pos)

C4_Witness ==
    /\ Returned_("discover_services")
    /\ last.out = "Ok"
    /\ last.list # <<>>
    /\ \E c \in characteristics : c.service_uuid = 2 /\ c.properties = 2
    /\ inflight["discover_services"] = 1

\* C5: a discover_services call that returns an error, wherever it failed,
\* leaves the session state as it was.
C5_FailedDiscoveryKeepsState ==
    [][ (last'.kind = "return" /\ last'.op = "discover_services"
           /\ last'.out # "Ok") => shared' = shared ]_vars

C5_Witness ==
    /\ Returned_("discover_services")
    /\ last.out = "JniError"
    /\ ~last.immediate
    /\ services # {}
    /\ properties # <<>>

\* C6: the two sets are empty at construction and change only in the
\* step in which a discover_services call returns Ok.
C6_OnlyDiscoveryChangesSets ==
    /\ services = {} /\ characteristics = {}
    /\ [][ (shared'.services # shared.services
              \/ shared'.characteristics # shared.characteristics)
           => (last'.kind = "return" /\ last'.op = "discover_services"
                 /\ last'.out = "Ok") ]_vars

C6_Witness ==
    /\ Returned_("disconnect")
    /\ last.out = "Ok"
    /\ services # {}
    /\ characteristics # {}

\* C7: properties() is None at construction; a report with a scan record
\* makes it exactly that report's properties; a report without one decodes
\* to None and changes nothing; nothing else changes it, and it never goes
\* back to None.
C7_PropertiesFollowReports ==
    /\ properties = <<>>
    /\ [][ /\ (last'.kind = "report" /\ last'.scan[1].record # <<>>)
              => shared'.properties = TryFromScanResult(last'.scan[1]).properties
           /\ (last'.kind = "report" /\ last'.scan[1].record = <<>>)
              => /\ TryFromScanResult(last'.scan[1]).properties = <<>>
                 /\ shared' = shared
           /\ last'.kind # "report" => shared'.properties = shared.properties
           /\ shared.properties # <<>> => shared'.properties # <<>> ]_vars

C7_Witness ==
    /\ last.kind = "report"
    /\ last.scan[1].record = <<>>
    /\ properties = << [ manufacturer_data |-> [k \in {6} |-> <<170, 187>>],
                         tx_power_level |-> <<-59>> ] >>

DomainErrors ==
    << "NotConnected", "PermissionDenied", "UnexpectedCallback",
       "UnexpectedCharacteristic", "NoSuchCharacteristic" >>

NamedOf(ex) == { k \in DOMAIN NamedClasses : NamedClasses[k] \in ex.cause }

MetFutureException ==
    bpc = "done" /\ bout.met # <<>> /\ bout.met[1].fe

IsSuffix(suffix, seq) ==
    /\ Len(suffix) <= Len(seq)
    /\ SubSeq(seq, Len(seq) - Len(suffix) + 1, Len(seq)) = suffix

\* C9: one iteration over a type-0xFF record that lies inside the buffer
\* and has its two company-id bytes files the payload after them under the
\* little-endian company id and touches no other company; a record of
\* another type leaves the manufacturer data alone; and the buffer
\* [04 FF 4C 00 02 00] decodes to {0x004C: [02]}.
C9_ManufacturerRecord ==
    [][ dpc = "loop" =>
          /\ LET i == index
                 len == Len(raw_bytes)
                 md == manufacturer_data
             IN  (i < len /\ raw_bytes[i + 1] >= 1 /\ i + raw_bytes[i + 1] < len) =>
                     LET length == raw_bytes[i + 1]
                         ad_type == raw_bytes[i + 2]
                     IN  /\ (ad_type = 255 /\ length >= 3) =>
                                LET cid == raw_bytes[i + 3] + 256 * raw_bytes[i + 4]
                                    payload == SubSeq(raw_bytes, i + 5, i + length + 1)
                                IN  /\ dpc' = "loop"
                                    /\ DOMAIN manufacturer_data' = DOMAIN md \cup {cid}
                                    /\ IsSuffix(payload, manufacturer_data'[cid])
                                    /\ \A k \in DOMAIN md \ {cid} :
                                           manufacturer_data'[k] = md[k]
                         /\ ad_type # 255 => manufacturer_data' = md
          /\ (raw_bytes = <<4, 255, 76, 0, 2, 0>> /\ dpc' = "done")
             => manufacturer_data' = [k \in {76} |-> <<2>>] ]_vars

C9_Witness ==
    /\ raw_bytes = <<4, 255, 76, 0, 2, 0>>
    /\ dpc = "done"
    /\ manufacturer_data = [k \in {76} |-> <<2>>]

\* The payloads of company c's manufacturer records from offset i on, in
\* the order the records lie in the buffer, joined.
RECURSIVE PayloadsFrom(_, _, _)
PayloadsFrom(raw, i, c) ==
    IF ~(i < Len(raw)) THEN <<>>
    ELSE IF raw[i + 1] = 0 \/ i + raw[i + 1] >= Len(raw) THEN <<>>
    ELSE LET length == raw[i + 1]
             here == IF /\ raw[i + 2] = 255
                        /\ length >= 3
                        /\ raw[i + 3] + 256 * raw[i + 4] = c
                     THEN SubSeq(raw, i + 5, i + length + 1)
                     ELSE <<>>
         IN  here \o PayloadsFrom(raw, i + length + 1, c)

RECURSIVE CompaniesFrom(_, _)
CompaniesFrom(raw, i) ==
    IF ~(i < Len(raw)) THEN {}
    ELSE IF raw[i + 1] = 0 \/ i + raw[i + 1] >= Len(raw) THEN {}
    ELSE LET length == raw[i + 1] IN
         (IF raw[i + 2] = 255 /\ length >= 3
          THEN { raw[i + 3] + 256 * raw[i + 4] } ELSE {})
             \cup CompaniesFrom(raw, i + length + 1)

\* C10: when the decode has finished, each company id maps to the
\* payloads of all its manufacturer records joined in buffer order; two
\* records for 0x004C with [AA] then [BB], the second ending on the
\* buffer's last byte, give [AA, BB].
C10_PayloadsConcatenated ==
    dpc = "done" =>
        /\ DOMAIN manufacturer_data = CompaniesFrom(raw_bytes, 0)
        /\ \A c \in DOMAIN manufacturer_data :
               manufacturer_data[c] = PayloadsFrom(raw_bytes, 0, c)
        /\ raw_bytes = <<4, 255, 76, 0, 170, 4, 255, 76, 0, 187>>
           => manufacturer_data = [k \in {76} |-> <<170, 187>>]

C10_Witness ==
    /\ dpc = "done"
    /\ raw_bytes = <<4, 255, 76, 0, 170, 4, 255, 76, 0, 187>>
    /\ index = 10
    /\ manufacturer_data = [k \in {76} |-> <<170, 187>>]

\* The offset of the first record whose length byte is 0 or whose declared
\* length runs past the end of the buffer (the buffer's length if none).
RECURSIVE StopPoint(_, _)
StopPoint(raw, i) ==
    IF ~(i < Len(raw)) THEN i
    ELSE IF raw[i + 1] = 0 \/ i + raw[i + 1] >= Len(raw) THEN i
    ELSE StopPoint(raw, i + raw[i + 1] + 1)

\* C11: every decode ends successfully, never by a fault, at the first
\* record whose length byte is 0 or whose declared length runs past the
\* end of the buffer, and the result then holds exactly the manufacturer
\* records that lie wholly before that point.
C11_StopsAtTruncation ==
    /\ dpc # "panic"
    /\ dpc = "done" =>
          /\ index = StopPoint(raw_bytes, 0)
          /\ DOMAIN manufacturer_data = CompaniesFrom(raw_bytes, 0)
          /\ \A c \in DOMAIN manufacturer_data :
                 manufacturer_data[c] = PayloadsFrom(raw_bytes, 0, c)

\* C12: a report whose raw tx power is 127 gives an absent tx power; any
\* other raw value v gives Some(w) with w the signed 16-bit number
\* congruent to v modulo 2^16, which is v itself when v is in the 16-bit
\* range; -59 gives Some(-59).
C12_TxPowerSentinel ==
    (last.kind = "report" /\ last.scan[1].record # <<>> /\ last.out = "Ok") =>
        LET v == last.scan[1].tx_power
            p == properties[1].tx_power_level
        IN  /\ v = 127 => p = <<>>
            /\ v # 127 => /\ Len(p) = 1
                          /\ p[1] \in -32768..32767
                          /\ p[1] % 65536 = v % 65536
            /\ (v \in -32768..32767 /\ v # 127) => p = <<v>>
            /\ v = -59 => p = <<-59>>

C12_Witness ==
    /\ last.kind = "report"
    /\ last.scan[1].tx_power = 32768
    /\ properties # <<>>
    /\ properties[1].tx_power_level = <<-32768>>

\* C13: mtu() on an available peripheral whose query was issued returns
\* NotConnected when the host raises the not-connected exception, a
\* conversion fault when the host's integer is outside 0..65535, and that
\* integer otherwise.
C13_MtuOutcomes ==
    (last.kind = "return" /\ last.op = "mtu" /\ last.host # <<>>) =>
        LET h == last.host[1] IN
        /\ last.calls = 1
        /\ (h.thrown # <<>> /\ "NotConnectedException" \in h.thrown[1])
           => (last.out = "NotConnected" /\ last.value = <<>>)
        /\ (h.thrown = <<>> /\ (h.value < 0 \/ h.value > 65535))
           => (last.out = "Other" /\ last.value = <<>>)
        /\ (h.thrown = <<>> /\ h.value >= 0 /\ h.value <= 65535)
           => (last.out = "Ok" /\ last.value = <<h.value>>)

C13_Witness ==
    /\ last.kind = "return"
    /\ last.op = "mtu"
    /\ last.host = << HostMtuThrows({"NotConnectedException", "RuntimeException"}) >>
    /\ last.out = "NotConnected"
    /\ adapter.alive /\ adapter.tracked

\* The notifications the items of a host sequence decode to, in order.
RECURSIVE Decoded(_)
Decoded(items) ==
    IF items = <<>> THEN <<>>
    ELSE (IF Head(items).kind = "event"
          THEN << [ uuid |-> Head(items).uuid, value |-> Head(items).value ] >>
          ELSE <<>>) \o Decoded(Tail(items))

\* C14: what the notification stream has delivered is exactly the host
\* events so far that decode, in host order, whatever failed items lie
\* between them; the stream has ended only if the host stream has.
C14_StreamDropsFailures ==
    /\ stream.delivered = Decoded(stream.emitted)
    /\ stream.ended => stream.closed

C14_Witness ==
    /\ Len(stream.emitted) = 3
    /\ stream.emitted[1].kind = "undecodable"
    /\ stream.emitted[2].kind = "error"
    /\ stream.emitted[3] = [ kind |-> "event", uuid |-> 2, value |-> <<7>> ]
    /\ stream.delivered = << [ uuid |-> 2, value |-> <<7>> ] >>

\* C15: nothing in flight keeps a read or a write from being issued: on an
\* available peripheral the host call of either can be made whatever other
\* invocations, of the same or of the other operation, are still awaiting
\* their results (up to the number of invocations the model follows).
C15_NoSerialization ==
    \A op \in {"read", "write"} :
        (adapter.alive /\ adapter.tracked /\ InFlightTotal(inflight) < MaxInFlight)
        => ENABLED (CallFuture(op) /\ last'.kind = "call" /\ last'.calls = 1)

C15_Witness ==
    /\ inflight["read"] = 1
    /\ inflight["write"] = 1
    /\ last.kind = "call"
    /\ last.op = "write"

\* Host operations issued and not yet completed.
HostRunning == InFlightTotal(inflight) + orphans

\* C16: dropping the future of an issued call changes neither the number
\* of host operations still running nor the session state; a host
\* operation ends only by completing, and the completion of a dropped
\* discover_services commits nothing.
C16_NoCancellation ==
    [][ /\ last'.kind = "abandon"
           => (HostRunning' = HostRunning /\ orphans' = orphans + 1 /\ shared' = shared)
        /\ last'.kind = "host_done" => shared' = shared
        /\ HostRunning' < HostRunning
           => ( \/ last'.kind = "host_done"
                \/ (last'.kind = "return" /\ ~last'.immediate) ) ]_vars

C16_Witness ==
    /\ last.kind = "host_done"
    /\ gatt # <<>>
    /\ services = {}
    /\ orphans = 0
    /\ InFlightTotal(inflight) = 0

\* The first of the five named categories the cause belongs to.
FirstNamed(ex) == CHOOSE k \in NamedOf(ex) : \A j \in NamedOf(ex) : k <= j

\* C17: a completion-failed fault whose cause belongs to named categories
\* is reported as the first of them in the order NotConnected,
\* PermissionDenied, UnexpectedCallback, UnexpectedCharacteristic,
\* NoSuchCharacteristic; RuntimeError is reported only for a cause in none
\* of the five that is a runtime fault, and carries its message.
C17_FirstMatchWins ==
    MetFutureException =>
        LET ex == bout.met[1] IN
        /\ NamedOf(ex) # {} => bout.err = DomainErrors[FirstNamed(ex)]
        /\ bout.err = "RuntimeError"
           => (NamedOf(ex) = {} /\ "RuntimeException" \in ex.cause /\ bout.msg = ex.msg)

C17_Witness ==
    /\ MetFutureException
    /\ bout.met[1].cause =
           { "NoSuchCharacteristicException", "PermissionDeniedException",
             "RuntimeException" }
    /\ bout.err = "PermissionDenied"

\* A fault retrieval cannot classify: not a completion-failed fault, or one
\* whose cause is in no named category and is no runtime fault.
Unclassified(ex) ==
    \/ ~ex.fe
    \/ (NamedOf(ex) = {} /\ "RuntimeException" \notin ex.cause)

C19_PendingCheckFirst ==
    [][ (bpc = "await" /\ bpc' # "await") =>
          IF env_exception # <<>>
          THEN /\ bpc' = "done"
               /\ bout'.met = env_exception
               /\ ~bout'.materialized
               /\ bout'.err = "JavaException" <=> Unclassified(env_exception[1])
               /\ bout'.err # "JavaException"
                  => /\ env_exception' = <<>>
                     /\ bout'.err \in { DomainErrors[k] : k \in DOMAIN DomainErrors }
                                        \cup { "RuntimeError" }
          ELSE bout'.materialized ]_vars

C19_Witness ==
    /\ bpc = "done"
    /\ bout.met # <<>>
    /\ bout.met[1].cause = {"NotConnectedException"}
    /\ ~bout.materialized
    /\ bout.err = "NotConnected"
    /\ env_exception = <<>>

\* C20: when with_obj could not attach to the host runtime, or found a
\* host fault pending, the operation has returned a bridge fault and has
\* made no host call; a host call is made only when neither happened.
C20_NoCallAfterPreCallFault ==
    /\ (bpc = "done" /\ bout.pre # "ok")
       => (bcalls = 0 /\ bout.err \in {"JniError", "JavaException"})
    /\ bout.pre = "attach_failed" => bout.err = "JniError"
    /\ bout.pre = "pending" => bout.err = "JavaException"
    /\ bcalls = 1 => bout.pre = "ok"

C20_Witness ==
    /\ bpc = "done"
    /\ bout.pre = "pending"
    /\ bout.err = "JavaException"
    /\ bcalls = 0

\* C23: no decode reads or slices outside its buffer, and none takes a
\* slice whose start exceeds its end: the decoder never aborts, whatever
\* the buffer (type-0xFF records of declared length 1 or 2 included).
C23_DecoderInBounds == dpc # "panic"

\* C24: in every session state the peripheral-wide characteristic set is
\* the union of the characteristic sets of the services in the service
\* set.
C24_WideSetIsUnion ==
    characteristics = UNION { sv.characteristics : sv \in services }

C24_Witness ==
    /\ Returned_("discover_services")
    /\ last.out = "Ok"
    /\ Cardinality(services) = 2
    /\ Cardinality(characteristics) = 2
    /\ \A sv \in services : Cardinality(sv.characteristics) = 1

\* C27: the decoding loop ends for every buffer: an iteration that goes
\* round again has moved the read index forward by at least 2 and not
\* beyond the buffer's length, and every decode leaves the loop.
C27_LoopTerminates ==
    /\ [][ (dpc = "loop" /\ dpc' = "loop") =>
             /\ index' = index + At(raw_bytes, index) + 1
             /\ index' >= index + 2
             /\ index' <= Len(raw_bytes) ]_vars
    /\ <>(dpc # "loop")

C27_Witness ==
    /\ dpc = "done"
    /\ Len(raw_bytes) >= 6
    /\ index = Len(raw_bytes)

\* C28: every committed Service has primary = true whatever the host
\* reported, so the host services of one discovery that have the same
\* UUID and the same characteristics are one entry of the service set.
C28_PrimaryAlwaysTrue ==
    /\ \A sv \in services : sv.primary = TRUE
    /\ (Returned_("discover_services") /\ last.out = "Ok") =>
          \A i \in DOMAIN last.list :
              Cardinality({ sv \in services :
                  /\ sv.uuid = last.list[i].uuid
                  /\ sv.characteristics =
                       Range(KeptCharacteristics(last.list[i],
                                 Len(last.list[i].characteristics))) }) = 1

C28_Witness ==
    /\ Returned_("discover_services")
    /\ last.out = "Ok"
    /\ Len(last.list) = 2
    /\ last.list[1].uuid = last.list[2].uuid
    /\ last.list[1].characteristics = last.list[2].characteristics
    /\ last.list[1].characteristics # <<>>
    /\ last.list[1].primary # last.list[2].primary
    /\ Cardinality(services) = 1

\* C26: discover_services passes the availability gate once, before its
\* host call, and not after its await: a call that was suspended returns
\* what retrieval and build give, never DeviceNotFound, and when they
\* succeed it commits the host's table, also when the adapter was torn
\* down or the peripheral removed meanwhile.
C26_NoGateAfterAwait ==
    [][ /\ (last'.kind = "call" /\ last'.op = "discover_services"
            /\ last' # last)
           => ensure_available
        /\ (inflight'["discover_services"] < inflight["discover_services"])
           => /\ last'.kind = "return"
              /\ last'.out # "DeviceNotFound"
              /\ last'.out \in {"Ok", "JniError", "JavaException", "NotConnected",
                              "RuntimeError"}
              /\ last'.out = "Ok"
                 => /\ shared'.services =
                         Range(BuildTree(gatt, Len(gatt)).peripheral_services)
                    /\ shared'.characteristics =
                         Range(BuildTree(gatt, Len(gatt)).peripheral_characteristics)
      ]_vars

C26_Witness ==
    /\ Returned_("discover_services")
    /\ ~last.immediate
    /\ last.out = "Ok"
    /\ ~ensure_available
    /\ last.list = gatt
    /\ gatt # <<>>
    /\ services = Range(BuildTree(gatt, Len(gatt)).peripheral_services)
    /\ services # {}

\* C22: an invocation of a bridged operation issues at most one host call:
\* none when the gate or with_obj failed, one otherwise; a fault is
\* returned to the caller and the returning step leaves no further host
\* call outstanding (no retry); the one call of subscribe is
\* set_characteristic_notification with enable = true, that of
\* unsubscribe the same method with enable = false.
C22_OneHostCallNoRetry ==
    /\ [](last.op \in FutureOps =>
            /\ Len(last.issued) = last.calls
            /\ Len(last.issued) <= 1
            /\ last.kind = "call" => Len(last.issued) = 1
            /\ (last.kind = "return" /\ ~last.immediate) => Len(last.issued) = 1
            /\ (last.kind = "return" /\ last.out \in {"DeviceNotFound", "JniError"}
                /\ last.immediate) => last.issued = <<>>
            /\ \A k \in DOMAIN last.issued :
                  /\ last.op = "subscribe" =>
                        last.issued[k] =
                          [ method |-> "set_characteristic_notification",
                            enable |-> <<TRUE>> ]
                  /\ last.op = "unsubscribe" =>
                        last.issued[k] =
                          [ method |-> "set_characteristic_notification",
                            enable |-> <<FALSE>> ]
                  /\ last.op \notin {"subscribe", "unsubscribe"} =>
                        last.issued[k] = [ method |-> last.op, enable |-> <<>> ])
    /\ [][ (last'.kind = "return" /\ last'.op \in FutureOps /\ last' # last) =>
             /\ InFlightTotal(inflight') <= InFlightTotal(inflight)
             /\ \A op \in FutureOps : inflight'[op] <= inflight[op]
             /\ last'.out # "Ok" => shared' = shared ]_vars

C22_Witness ==
    /\ Returned_("unsubscribe")
    /\ last.out = "NotConnected"
    /\ ~last.immediate
    /\ last.issued = << [ method |-> "set_characteristic_notification",
                          enable |-> <<FALSE>> ] >>
    /\ InFlightTotal(inflight) = 0

\* The next step of whoever holds the Mutex.
HolderStep ==
    \/ \E t \in Tasks : DiscoverSetServices(t)
    \/ \E t \in Tasks : DiscoverSetCharacteristics(t)
    \/ \E which \in Accessors : AccessorReturn(which)
    \/ ReportStore

\* C21: the Mutex of the session state is never held at a suspension
\* point: a task that holds it is past its await, the holder's next step
\* is always possible without any host completion, and while the Mutex is
\* free every accessor, the property report and every discovery that has
\* built its result can take it, whatever host calls are still suspended.
C21_LockNotHeldAcrossAwait ==
    /\ \A t \in Tasks :
          /\ task[t].pc = "await" => lock.t # t
          /\ lock.t = t <=> task[t].pc \in {"locked", "services_set"}
    /\ lock # Unlocked => ENABLED HolderStep
    /\ lock = Unlocked =>
          /\ \A which \in Accessors : ENABLED AccessorLock(which)
          /\ ENABLED ReportLock
          /\ \A t \in Tasks : task[t].pc = "built" => ENABLED DiscoverLock(t)

C21_Witness ==
    /\ task[1].pc = "await"
    /\ task[2].pc = "services_set"
    /\ lock = [ by |-> "discover_services", t |-> 2 ]

\* The pair the session holds after a discovery of list has committed.
PairOf(list) ==
    [ services |-> Range(BuildTree(list, Len(list)).peripheral_services),
      characteristics |->
          Range(BuildTree(list, Len(list)).peripheral_characteristics) ]

\* The pair of the session state comes from one discovery, or is the
\* initial empty pair.
Untorn ==
    \/ services = {} /\ characteristics = {}
    \/ \E list \in SessionLists :
          /\ services = PairOf(list).services
          /\ characteristics = PairOf(list).characteristics

\* C25: with concurrent discover_services calls, whenever the Mutex is not
\* held by a committing call (every moment at which the state can be
\* read) the pair (services, characteristics) comes wholly from one
\* discovery result or is the initial empty pair; a call that finishes its
\* commit leaves exactly its own result, whichever call started first.
C25_CommitNotTorn ==
    /\ [](lock.by # "discover_services" => Untorn)
    /\ [][ \A t \in Tasks :
             (task[t].pc = "services_set" /\ task'[t].pc = "idle") =>
                /\ shared'.services =
                       Range(task[t].built.tree.peripheral_services)
                /\ shared'.characteristics =
                       Range(task[t].built.tree.peripheral_characteristics)
                /\ lock' = Unlocked ]_vars

C25_Witness ==
    /\ task[1].pc = "services_set"
    /\ task[2].pc = "built"
    /\ task[1].built # task[2].built
    /\ lock = [ by |-> "discover_services", t |-> 1 ]
    /\ ~Untorn
    /\ services # {}
    /\ characteristics # {}

=============================================================================
